---- MODULE Spec2Model ----
(***************************************************************************)
(* Model of boto3manager.manager.Boto3Manager: upload, download,           *)
(* list_all_objects and delete_folder against an S3-like object store.     *)
(*                                                                         *)
(* Strings are sequences of one-character strings, so that prefix          *)
(* stripping, splitting on "/" and concatenation are computed character    *)
(* by character as Python computes them.                                   *)
(***************************************************************************)
EXTENDS Integers, Sequences, FiniteSets, TLC

\* ------------------------------------------------------------------ bounds
\* The store's page / batch limit (1000 for S3), scaled down.
PageLimit == 2
\* Most objects under the prefix in a listing or deletion run.
MaxObjects == 5
\* Most pages without a 'Contents' entry the store serves in one listing.
MaxEmptyPages == 1
\* Most files / objects in one upload or download batch.
MaxItems == 3
\* Largest file size in bytes.
MaxSize == 2
\* Transfer worker threads (TransferConfig.max_concurrency), scaled down.
Workers == 2
\* Deepest relative path (in components) in the key round trip.
MaxDepth == 2

\* ----------------------------------------------------------------- strings
\* Python's None, distinct from every string of characters.
None == <<"None">>

Min(a, b) == IF a <= b THEN a ELSE b

RECURSIVE SumSeq(_)
SumSeq(s) == IF s = <<>> THEN 0 ELSE Head(s) + SumSeq(Tail(s))

\* str.startswith
StartsWith(s, p) == Len(p) <= Len(s) /\ SubSeq(s, 1, Len(p)) = p

\* str.removeprefix(prefix): strips the prefix when present, else the string unchanged.
\* (str.lstrip(prefix) instead strips every leading character found in prefix.)
RECURSIVE LStripChars(_, _)
LStripChars(s, p) ==
    IF s # <<>> /\ \E i \in 1..Len(p) : p[i] = s[1] THEN LStripChars(Tail(s), p) ELSE s
RemovePrefix(s, p) == IF StartsWith(s, p) THEN SubSeq(s, Len(p) + 1, Len(s)) ELSE s

\* str.split('/'): always at least one segment; segments may be empty.
RECURSIVE Split(_)
Split(s) ==
    IF \A i \in 1..Len(s) : s[i] # "/" THEN <<s>>
    ELSE LET i == CHOOSE k \in 1..Len(s) : s[k] = "/" /\ \A j \in 1..(k - 1) : s[j] # "/"
         IN <<SubSeq(s, 1, i - 1)>> \o Split(SubSeq(s, i + 1, Len(s)))

\* '/'.join(parts)
RECURSIVE Join(_)
Join(parts) ==
    IF parts = <<>> THEN <<>>
    ELSE IF Len(parts) = 1 THEN parts[1]
    ELSE parts[1] \o <<"/">> \o Join(Tail(parts))

Front(s) == SubSeq(s, 1, Len(s) - 1)
Last(s) == s[Len(s)]

\* ------------------------------------------------------------------- paths
\* A pathlib.Path: whether it is absolute, and its components.
NonEmpty(seg) == seg # <<>>
ParsePath(s) == [abs |-> s # <<>> /\ s[1] = "/", parts |-> SelectSeq(Split(s), NonEmpty)]

\* Path.__truediv__: an absolute right operand replaces the left one.
PathJoin(p, s) ==
    LET q == ParsePath(s)
    IN IF q.abs THEN q ELSE [abs |-> p.abs, parts |-> p.parts \o q.parts]

\* PurePath.as_posix() of a relative path given by its components.
as_posix(rel) == Join(rel)

\* upload's destination_path: the relative path in posix form, prefixed
\* by direct concatenation when a prefix is given.
destination_path(rel, pfx) == IF pfx # None THEN pfx \o as_posix(rel) ELSE as_posix(rel)

\* download's path_list, base_name, dir and new_file_path for one key.
path_list(key, pfx) == Split(RemovePrefix(key, pfx))
base_name(key, pfx) == Last(path_list(key, pfx))
dir(destination, key, pfx) ==
    LET pl == path_list(key, pfx)
    IN IF Len(pl) > 1 THEN PathJoin(ParsePath(destination), Join(Front(pl)))
       ELSE ParsePath(destination)
new_file_path(destination, key, pfx) == PathJoin(dir(destination, key, pfx), base_name(key, pfx))

\* ------------------------------------------------------------------- store
\* The i-th object name under a prefix: "a", "aa", "aaa", ... (lexicographic
\* order is listing order).
NameOf(i) == [j \in 1..i |-> "a"]

Prefixes == {<<>>, <<"p", "/">>, <<"a">>}

\* One list_objects_v2 response: c entries starting after `start`. The
\* 'Contents' entry is absent when the page holds no entries.
ListObjectsV2(keys, start, c) ==
    [HasContents |-> c > 0,
     Contents    |-> SubSeq(keys, start + 1, start + c),
     IsTruncated |-> start + c < Len(keys),
     Next        |-> start + c]

\* How many entries the store may put in the page after `start`: at most
\* PageLimit, none only when nothing is left or an empty page is still allowed.
PageCounts(keys, start, mayBeEmpty) ==
    {c \in 0..Min(PageLimit, Len(keys) - start) :
        c = 0 => (start = Len(keys) \/ mayBeEmpty)}

\* A single list_objects_v2 call without a continuation token: the first
\* page, filled up to the limit.
FirstPageCount(keys) == Min(PageLimit, Len(keys))

NoPage == [HasContents |-> FALSE, Contents |-> <<>>, IsTruncated |-> FALSE, Next |-> 0]

VARIABLES
    op,           \* the operation in progress
    prefix,       \* Prefix / folder argument
    bucket,       \* objects of the bucket that start with prefix, in listing order
    destination,  \* download's destination argument
    lpc,          \* list_all_objects: position of the generator
    token,        \* list_all_objects: continuation state (entries served so far)
    page,         \* list_all_objects: the page being iterated
    pos,          \* list_all_objects: entries of the page already yielded
    yielded,      \* list_all_objects: everything yielded so far
    emptyServed,  \* pages without 'Contents' the store has served in this listing
    dpc,          \* delete_folder: position
    objects,      \* delete_folder: the mapped {"Key": ...} list
    deleteCalls,  \* delete_objects calls received by the store (their key lists)
    deleted,      \* keys the store has deleted
    delErrors,    \* keys a delete_objects response listed under 'Errors'
    dresult,      \* delete_folder: how it ended
    files,        \* upload: get_files(path), each with its relative path and size
    contents,     \* download: list(list_all_objects(Prefix=prefix))
    totalsize,    \* total of the progress bar
    tpc,          \* upload / download: position
    idx,          \* upload / download: items the for loop has been through
    raised,       \* upload / download: whether the try body raised
    result,       \* upload / download: the value returned
    transfer_manager, \* "none", "open" or "shutdown"
    tasks,        \* transfers submitted to the transfer manager
    progress_n,   \* progress_bar.n
    rel,          \* round trip: the file's path relative to the upload root
    key,          \* round trip: the key upload built
    local,        \* round trip: what download derived from the key
    kpc           \* round trip: position

storeVars == <<op, prefix, bucket, destination>>
listVars == <<lpc, token, page, pos, yielded, emptyServed>>
deleteVars == <<dpc, objects, deleteCalls, deleted, delErrors, dresult>>
loopVars == <<files, contents, totalsize, tpc, idx, raised, result, transfer_manager>>
workVars == <<tasks, progress_n>>
keyVars == <<rel, key, local, kpc>>
vars == <<storeVars, listVars, deleteVars, loopVars, workVars, keyVars>>

Keys(objs) == [i \in 1..Len(objs) |-> objs[i].Key]
Sizes(objs) == [i \in 1..Len(objs) |-> objs[i].Size]
SeqToSet(s) == {s[i] : i \in 1..Len(s)}

ListIdle ==
    /\ lpc = "idle" /\ token = 0 /\ page = NoPage /\ pos = 0
    /\ yielded = <<>> /\ emptyServed = 0
DeleteIdle ==
    /\ dpc = "idle" /\ objects = <<>> /\ deleteCalls = <<>>
    /\ deleted = {} /\ delErrors = {} /\ dresult = "none"
TransferIdle ==
    /\ files = <<>> /\ contents = <<>> /\ totalsize = 0 /\ tpc = "idle" /\ idx = 0
    /\ raised = FALSE /\ result = "none" /\ transfer_manager = "none"
    /\ tasks = <<>> /\ progress_n = 0
KeyIdle == rel = <<>> /\ key = <<>> /\ local = None /\ kpc = "idle"

\* A bucket holding nobj objects under pfx.
BucketOf(pfx, nobj) == [i \in 1..nobj |-> [Key |-> pfx \o NameOf(i), Size |-> 1]]

\* -------------------------------------------------------- list_all_objects
\* The objects a page contributes: page['Contents'] when the entry is present.
PageObjects(pg) == IF pg.HasContents THEN pg.Contents ELSE <<>>

\* Whether the loop over the pages goes on after this page: as long as the
\* paginator has a further page, with or without 'Contents' in this one.
\* (StopAtEmptyPage: a loop that ends at the first page without 'Contents'.)
StopAtEmptyPage(pg) == pg.IsTruncated /\ pg.HasContents
MorePages(pg) == pg.IsTruncated

\* `for page in pages`: the paginator requests the next page.
list_all_objects_NextPage ==
    /\ lpc = "fetch"
    /\ \E c \in PageCounts(bucket, token, emptyServed < MaxEmptyPages) :
          /\ page' = ListObjectsV2(bucket, token, c)
          /\ token' = token + c
          /\ emptyServed' = IF c = 0 THEN emptyServed + 1 ELSE emptyServed
    /\ pos' = 0
    /\ lpc' = "page"
    /\ UNCHANGED <<yielded, storeVars, deleteVars, loopVars, workVars, keyVars>>

\* `yield obj`
list_all_objects_Yield ==
    /\ lpc = "page"
    /\ pos < Len(PageObjects(page))
    /\ yielded' = Append(yielded, PageObjects(page)[pos + 1])
    /\ pos' = pos + 1
    /\ UNCHANGED <<lpc, token, page, emptyServed>>
    /\ UNCHANGED <<storeVars, deleteVars, loopVars, workVars, keyVars>>

\* The inner loop is exhausted: next page, or the generator ends.
list_all_objects_PageEnd ==
    /\ lpc = "page"
    /\ pos = Len(PageObjects(page))
    /\ lpc' = IF MorePages(page) THEN "fetch" ELSE "done"
    /\ UNCHANGED <<token, page, pos, yielded, emptyServed>>
    /\ UNCHANGED <<storeVars, deleteVars, loopVars, workVars, keyVars>>

InitList ==
    /\ op = "list"
    /\ prefix \in Prefixes
    /\ \E nobj \in 0..MaxObjects : bucket = BucketOf(prefix, nobj)
    /\ destination = <<>>
    /\ lpc = "fetch" /\ token = 0 /\ page = NoPage /\ pos = 0 /\ yielded = <<>>
    /\ emptyServed = 0
    /\ DeleteIdle /\ TransferIdle /\ KeyIdle

NextList ==
    \/ list_all_objects_NextPage
    \/ list_all_objects_Yield
    \/ list_all_objects_PageEnd

SpecList == InitList /\ [][NextList]_vars

\* ----------------------------------------------------------- delete_folder
\* client.list_objects_v2(Bucket, Prefix)['Contents'] and the map to {"Key": k}.
delete_folder_List ==
    /\ dpc = "list"
    /\ \/ \* the store call raises ClientError: caught, return False
          /\ dresult' = "False"
          /\ dpc' = "done"
          /\ UNCHANGED objects
       \/ LET response == ListObjectsV2(bucket, 0, FirstPageCount(bucket))
          IN IF response.HasContents
             THEN /\ objects' = Keys(response.Contents)
                  /\ dpc' = "delete"
                  /\ UNCHANGED dresult
             ELSE \* ['Contents'] raises KeyError, which is not a ClientError
                  /\ dresult' = "KeyError"
                  /\ dpc' = "done"
                  /\ UNCHANGED objects
    /\ UNCHANGED <<deleteCalls, deleted, delErrors>>
    /\ UNCHANGED <<storeVars, listVars, loopVars, workVars, keyVars>>

\* client.delete_objects(Bucket, Delete={"Objects": objects}); the response
\* (its 'Deleted' and 'Errors' lists) is not looked at.
delete_folder_Delete ==
    /\ dpc = "delete"
    /\ \/ \* the store call raises ClientError: caught, return False
          /\ dresult' = "False"
          /\ UNCHANGED <<deleteCalls, deleted, delErrors>>
       \/ \E errs \in SUBSET SeqToSet(objects) :
             /\ deleteCalls' = Append(deleteCalls, objects)
             /\ deleted' = deleted \cup (SeqToSet(objects) \ errs)
             /\ delErrors' = delErrors \cup errs
             /\ dresult' = "True"
    /\ dpc' = "done"
    /\ UNCHANGED objects
    /\ UNCHANGED <<storeVars, listVars, loopVars, workVars, keyVars>>

InitDelete ==
    /\ op = "delete"
    /\ prefix \in Prefixes
    /\ \E nobj \in 0..MaxObjects : bucket = BucketOf(prefix, nobj)
    /\ destination = <<>>
    /\ ListIdle /\ TransferIdle /\ KeyIdle
    /\ dpc = "list" /\ objects = <<>> /\ deleteCalls = <<>>
    /\ deleted = {} /\ delErrors = {} /\ dresult = "none"

NextDelete ==
    \/ delete_folder_List
    \/ delete_folder_Delete

SpecDelete == InitDelete /\ [][NextDelete]_vars

\* ------------------------------------------------------- upload / download
\* The relative path of the i-th file under the upload root: files at the
\* root and files one directory down.
FileOf(i) == IF i % 2 = 1 THEN <<NameOf(i)>> ELSE <<<<"d">>, NameOf(i)>>

\* What may follow the prefix in a key of the bucket: nothing (the key is the
\* prefix itself), a name, a folder marker, a name inside a folder.
Rests == << <<>>, <<"a">>, <<"d", "/">>, <<"d", "/", "a">> >>

RECURSIVE SortedSeq(_)
SortedSeq(S) ==
    IF S = {} THEN <<>>
    ELSE LET m == CHOOSE x \in S : \A y \in S : x <= y
         IN <<m>> \o SortedSeq(S \ {m})

\* The buckets a download may meet under pfx: keys are non-empty strings.
DownloadBuckets(pfx) ==
    {[i \in 1..Len(chosen) |-> [Key |-> pfx \o Rests[chosen[i]], Size |-> sz[i]]] :
        chosen \in {SortedSeq(S) : S \in {T \in SUBSET (1..Len(Rests)) :
                                            /\ Cardinality(T) <= MaxItems
                                            /\ \A r \in T : pfx \o Rests[r] # <<>>}},
        sz \in [1..MaxItems -> 1..MaxSize]}

\* get_size: the sum of the files' sizes.
get_size(fs) == SumSeq([i \in 1..Len(fs) |-> fs[i].size])

Items == IF op = "upload" THEN files ELSE contents

NewTask(k, fname, base, size) ==
    [key |-> k, filename |-> fname, base |-> base, size |-> size,
     status |-> "pending", sent |-> 0, loaded |-> 0, delta |-> 0]

Terminal(t) == t.status \in {"ok", "failed"}
Active(t) == t.status \in {"running", "updating"}

\* upload, up to the for loop: transfer manager, get_files, get_size, tqdm.
upload_Begin ==
    /\ op = "upload" /\ tpc = "start"
    /\ transfer_manager' = "open"
    /\ totalsize' = get_size(files)
    /\ tpc' = "loop"
    /\ UNCHANGED <<files, contents, idx, raised, result>>
    /\ UNCHANGED <<storeVars, listVars, deleteVars, workVars, keyVars>>

\* One iteration of upload's for loop: the try body, or its except clause.
upload_Dispatch ==
    /\ op = "upload" /\ tpc = "loop" /\ idx < Len(files)
    /\ \/ LET file == files[idx + 1]
          IN /\ tasks' = Append(tasks, NewTask(destination_path(file.rel, prefix),
                                               file.rel, Last(file.rel), file.size))
             /\ idx' = idx + 1
             /\ UNCHANGED <<raised, result, tpc>>
       \/ \* a statement of the try body raises: print(e); return False
          /\ raised' = TRUE
          /\ result' = "False"
          /\ tpc' = "done"
          /\ UNCHANGED <<tasks, idx>>
    /\ UNCHANGED <<files, contents, totalsize, transfer_manager, progress_n>>
    /\ UNCHANGED <<storeVars, listVars, deleteVars, keyVars>>

\* download, up to the listing: transfer manager, then list_all_objects.
download_Begin ==
    /\ op = "download" /\ tpc = "start"
    /\ transfer_manager' = "open"
    /\ lpc' = "fetch"
    /\ tpc' = "listing"
    /\ UNCHANGED <<token, page, pos, yielded, emptyServed>>
    /\ UNCHANGED <<files, contents, totalsize, idx, raised, result>>
    /\ UNCHANGED <<storeVars, deleteVars, workVars, keyVars>>

\* contents = list(...); the empty-folder early return; totalsize.
download_Listed ==
    /\ op = "download" /\ tpc = "listing" /\ lpc = "done"
    /\ contents' = yielded
    /\ IF Len(yielded) = 0
       THEN /\ result' = "True"
            /\ tpc' = "done"
            /\ UNCHANGED totalsize
       ELSE /\ totalsize' = SumSeq(Sizes(yielded))
            /\ tpc' = "loop"
            /\ UNCHANGED result
    /\ UNCHANGED <<files, idx, raised, transfer_manager>>
    /\ UNCHANGED <<storeVars, listVars, deleteVars, workVars, keyVars>>

\* One iteration of download's for loop: the try body, or its except clause.
download_Dispatch ==
    /\ op = "download" /\ tpc = "loop" /\ idx < Len(contents)
    /\ \/ LET file == contents[idx + 1]
          IN /\ tasks' = Append(tasks, NewTask(file.Key,
                                               new_file_path(destination, file.Key, prefix),
                                               base_name(file.Key, prefix), file.Size))
             /\ idx' = idx + 1
             /\ UNCHANGED <<raised, result, tpc>>
       \/ \* a statement of the try body (mkdir, ...) raises: print(e); return False
          /\ raised' = TRUE
          /\ result' = "False"
          /\ tpc' = "done"
          /\ UNCHANGED <<tasks, idx>>
    /\ UNCHANGED <<files, contents, totalsize, transfer_manager, progress_n>>
    /\ UNCHANGED <<storeVars, listVars, deleteVars, keyVars>>

\* After the loop: transfer_manager.shutdown() waits for every submitted
\* transfer to end, whatever its outcome, and the operation returns True.
transfer_Shutdown ==
    /\ op \in {"upload", "download"} /\ tpc = "loop" /\ idx = Len(Items)
    /\ \A i \in 1..Len(tasks) : Terminal(tasks[i])
    /\ transfer_manager' = "shutdown"
    /\ result' = "True"
    /\ tpc' = "done"
    /\ UNCHANGED <<files, contents, totalsize, idx, raised>>
    /\ UNCHANGED <<storeVars, listVars, deleteVars, workVars, keyVars>>

\* A worker thread of the transfer manager takes a submitted transfer.
task_Start(i) ==
    /\ tasks[i].status = "pending"
    /\ Cardinality({j \in 1..Len(tasks) : Active(tasks[j])}) < Workers
    /\ tasks' = [tasks EXCEPT ![i].status = "running"]
    /\ UNCHANGED <<progress_n, storeVars, listVars, deleteVars, loopVars, keyVars>>

\* A chunk of d bytes is through: ProgressCallbackInvoker calls
\* progress_bar.update(d), which begins by reading progress_bar.n ...
task_Progress(i) ==
    /\ tasks[i].status = "running"
    /\ \E d \in 1..(tasks[i].size - tasks[i].sent) :
          tasks' = [tasks EXCEPT ![i].status = "updating",
                                 ![i].loaded = progress_n,
                                 ![i].delta = d]
    /\ UNCHANGED <<progress_n, storeVars, listVars, deleteVars, loopVars, keyVars>>

\* ... and ends by storing n + d; no lock is held in between.
task_Update(i) ==
    /\ tasks[i].status = "updating"
    /\ progress_n' = tasks[i].loaded + tasks[i].delta
    /\ tasks' = [tasks EXCEPT ![i].status = "running",
                              ![i].sent = tasks[i].sent + tasks[i].delta]
    /\ UNCHANGED <<storeVars, listVars, deleteVars, loopVars, keyVars>>

\* The transfer completes: its future holds a result.
task_Done(i) ==
    /\ tasks[i].status = "running"
    /\ tasks[i].sent = tasks[i].size
    /\ tasks' = [tasks EXCEPT ![i].status = "ok"]
    /\ UNCHANGED <<progress_n, storeVars, listVars, deleteVars, loopVars, keyVars>>

\* The transfer fails (store error, local I/O error): its future holds the
\* exception, which nobody asks for.
task_Fail(i) ==
    /\ tasks[i].status = "running"
    /\ tasks' = [tasks EXCEPT ![i].status = "failed"]
    /\ UNCHANGED <<progress_n, storeVars, listVars, deleteVars, loopVars, keyVars>>

Init ==
    /\ op \in {"upload", "download"}
    /\ IF op = "upload"
       THEN /\ prefix \in {None, <<"p", "/">>}
            /\ bucket = <<>>
            /\ destination = <<>>
            /\ \E k \in 0..MaxItems : \E sz \in [1..k -> 1..MaxSize] :
                  files = [i \in 1..k |-> [rel |-> FileOf(i), size |-> sz[i]]]
       ELSE /\ prefix \in {<<>>, <<"p", "/">>}
            /\ bucket \in DownloadBuckets(prefix)
            /\ destination = <<"o">>
            /\ files = <<>>
    /\ contents = <<>> /\ totalsize = 0 /\ tpc = "start" /\ idx = 0
    /\ raised = FALSE /\ result = "none" /\ transfer_manager = "none"
    /\ tasks = <<>> /\ progress_n = 0
    /\ ListIdle /\ DeleteIdle /\ KeyIdle

Next ==
    \/ upload_Begin
    \/ upload_Dispatch
    \/ download_Begin
    \/ list_all_objects_NextPage
    \/ list_all_objects_Yield
    \/ list_all_objects_PageEnd
    \/ download_Listed
    \/ download_Dispatch
    \/ transfer_Shutdown
    \/ \E i \in 1..Len(tasks) : task_Start(i)
    \/ \E i \in 1..Len(tasks) : task_Progress(i)
    \/ \E i \in 1..Len(tasks) : task_Update(i)
    \/ \E i \in 1..Len(tasks) : task_Done(i)
    \/ \E i \in 1..Len(tasks) : task_Fail(i)

Spec == Init /\ [][Next]_vars

\* ---------------------------------------------------------- key round trip
\* File and directory names: no separator inside, never empty. They share
\* characters with the prefixes on purpose.
Names == {<<"a">>, <<"p">>}
RelPaths == UNION {[1..d -> Names] : d \in 1..MaxDepth}
Destinations == {<<"o">>, <<"/", "o">>, <<"o", "/", "s">>}

\* download's prefix argument for an upload prefix: '' stands for None.
DownloadPrefix(pfx) == IF pfx = None THEN <<>> ELSE pfx

\* upload builds the key of the file at rel.
roundtrip_Upload ==
    /\ kpc = "upload"
    /\ key' = destination_path(rel, prefix)
    /\ kpc' = "download"
    /\ UNCHANGED <<rel, local, storeVars, listVars, deleteVars, loopVars, workVars>>

\* download, with the same prefix, derives the directory and file name.
roundtrip_Download ==
    /\ kpc = "download"
    /\ local' = [directory |-> dir(destination, key, DownloadPrefix(prefix)),
                 filename  |-> base_name(key, DownloadPrefix(prefix))]
    /\ kpc' = "done"
    /\ UNCHANGED <<rel, key, storeVars, listVars, deleteVars, loopVars, workVars>>

InitKey ==
    /\ op = "roundtrip"
    /\ prefix \in Prefixes \cup {None}
    /\ bucket = <<>>
    /\ destination \in Destinations
    /\ rel \in RelPaths
    /\ key = <<>> /\ local = None /\ kpc = "upload"
    /\ ListIdle /\ DeleteIdle /\ TransferIdle

NextKey ==
    \/ roundtrip_Upload
    \/ roundtrip_Download

SpecKey == InitKey /\ [][NextKey]_vars

\* ================================================================== claims
CeilDiv(a, b) == (a + b - 1) \div b

RECURSIVE Flatten(_)
Flatten(ss) == IF ss = <<>> THEN <<>> ELSE Head(ss) \o Flatten(Tail(ss))

\* C1: when delete_folder succeeds on a prefix with N > 0 keys, it has issued
\* exactly ceil(N / limit) delete calls, each of at most `limit` keys, which
\* together hold every key under the prefix exactly once.
C1_DeleteBatches ==
    (dpc = "done" /\ dresult = "True" /\ Len(bucket) > 0) =>
        /\ Len(deleteCalls) = CeilDiv(Len(bucket), PageLimit)
        /\ \A i \in 1..Len(deleteCalls) : Len(deleteCalls[i]) <= PageLimit
        /\ Flatten(deleteCalls) = Keys(bucket)

\* C2: list_all_objects yields the objects under the prefix in page order,
\* each once: what it has yielded is always an initial part of the listing,
\* and all of it once the generator has ended; a page without 'Contents'
\* adds nothing and does not end the iteration.
C2_ListAllObjects ==
    /\ Len(yielded) <= Len(bucket)
    /\ yielded = SubSeq(bucket, 1, Len(yielded))
    /\ lpc = "done" => yielded = bucket

\* C2 witness: a listing of more than two full pages that met a page
\* without 'Contents' and ran to its end.
C2_Witness ==
    /\ op = "list" /\ lpc = "done"
    /\ Len(bucket) > 2 * PageLimit
    /\ emptyServed >= 1
    /\ Len(yielded) = Len(bucket)

FailedCount == Cardinality({i \in 1..Len(tasks) : tasks[i].status = "failed"})
SucceededCount == Cardinality({i \in 1..Len(tasks) : tasks[i].status = "ok"})

\* C3: when upload or download has returned and exactly one item's transfer
\* failed, every other item succeeded and the operation returned False.
C3_SingleFailure ==
    (result # "none" /\ ~raised /\ FailedCount = 1) =>
        /\ SucceededCount = Len(Items) - 1
        /\ result = "False"

\* C4: whenever upload returns True, the progress bar's count equals its
\* total, which is the sum of the file sizes.
C4_UploadSuccessProgress ==
    (op = "upload" /\ result = "True") =>
        /\ totalsize = get_size(files)
        /\ progress_n = totalsize

\* C5: whenever no progress callback is in flight, the progress bar's count
\* is the sum of all the deltas the callbacks were given.
C5_NoLostUpdate ==
    (\A i \in 1..Len(tasks) : tasks[i].status # "updating") =>
        progress_n = SumSeq([i \in 1..Len(tasks) |-> tasks[i].sent])

\* C6: if a delete_objects response reported a failure for a key,
\* delete_folder does not return True; it returns True only when every key
\* it asked the store to delete was deleted.
C6_PartialDeletion ==
    dpc = "done" =>
        /\ delErrors # {} => dresult # "True"
        /\ dresult = "True" => SeqToSet(Flatten(deleteCalls)) \subseteq deleted

\* C7: when no key starts with the prefix and the store call itself does not
\* fail, delete_folder returns True, raises nothing and issues no delete call.
C7_EmptyFolder ==
    (dpc = "done" /\ bucket = <<>> /\ dresult # "False") =>
        /\ dresult = "True"
        /\ deleteCalls = <<>>

\* C8: whenever upload or download has returned, the transfer manager it
\* created has been shut down.
C8_ShutdownOnReturn ==
    result # "none" => transfer_manager = "shutdown"

\* C9: the key upload builds from prefix and relative path is mapped back by
\* download, with the same prefix, to the destination joined with the parent
\* components of the path, and to the path's last component as file name.
C9_RoundTrip ==
    kpc = "done" =>
        local = [directory |-> [abs   |-> ParsePath(destination).abs,
                                parts |-> ParsePath(destination).parts \o Front(rel)],
                 filename  |-> Last(rel)]

\* C9 witness: a file two levels down whose directory name repeats the
\* prefix's characters, taken through upload and download.
C9_Witness ==
    /\ kpc = "done"
    /\ prefix = <<"a">>
    /\ rel = << <<"a">>, <<"p">> >>
    /\ key = <<"a", "a", "/", "p">>
    /\ local.filename = <<"p">>

\* C10: download dispatches no transfer whose file name is empty, and does
\* not return True when a listed key has an empty last segment after the
\* prefix.
C10_EmptyObjectName ==
    op = "download" =>
        /\ \A i \in 1..Len(tasks) : tasks[i].base # <<>>
        /\ result = "True" =>
              \A i \in 1..Len(contents) : base_name(contents[i].Key, prefix) # <<>>

====
